---- MODULE Spec2Model ----
(***************************************************************************)
(* A model of src/main/utils.js of inkmap: the translation of an           *)
(* OpenLayers map into a print spec (fromOlMap, mapOlLayerToInkmap,        *)
(* getScaleForResolution) and the printerReady promise.                    *)
(*                                                                         *)
(* JavaScript values are records tagged by the field t, so that values of  *)
(* different types can be compared.  One JavaScript job (a call that runs  *)
(* to completion, a promise reaction, a timer callback) is one action.     *)
(*                                                                         *)
(* Environment: the accessors the code dereferences without a guard        *)
(* (olMap.getView().getProjection(), olLayer.getSource, source.getParams(),*)
(* source.getProjection() of a WMTS source, navigator.serviceWorker) are   *)
(* taken to return objects, and parser.readStyle to return an object when  *)
(* it does not reject; the accessors the code guards with ?. or ?? may     *)
(* return null.                                                            *)
(***************************************************************************)
EXTENDS Integers, Sequences, FiniteSets, TLC

VARIABLES
  olMap,          \* the map handed to fromOlMap: view state and layers
  result,         \* what the caller of fromOlMap gets: thrown, or the returned promise
  layerPromises,  \* the promises of the mapOlLayerToInkmap calls, in layer order
  settleOrder,    \* the layers in the order their promises settled
  all,            \* the promise of Promise.all(layerPromises)
  readStyleArgs,  \* per layer, the arguments of the parser.readStyle calls made
  gsStyles,       \* per layer, the local gsStyle: what the awaited readStyle returned
  console,        \* the lines written to the console by fromOlMap and its callees
  env,            \* printerReady: the browser (canvas support, worker controller)
  registration,   \* printerReady: the promise of serviceWorker.register
  timer,          \* printerReady: the setTimeout of 100 ms, and the controller its callback saw
  printerReady,   \* printerReady: the promise itself
  resolveCalls,   \* printerReady: the arguments of the resolve calls made so far
  subscribers,    \* printerReady: the then-callbacks and what each was handed
  printerLog      \* the lines written to the console by the printerReady code

mapVars == <<olMap, result, layerPromises, settleOrder, all, readStyleArgs, gsStyles, console>>
printerVars == <<env, registration, timer, printerReady, resolveCalls, subscribers, printerLog>>
vars == <<olMap, result, layerPromises, settleOrder, all, readStyleArgs, gsStyles, console,
          env, registration, timer, printerReady, resolveCalls, subscribers, printerLog>>

\* ---------------------------------------------------------------- bounds
MaxLayers == 3
MaxRes == 3
MaxSubscribers == 2

\* ------------------------------------------------------ JavaScript values
Undefined == [t |-> "undefined"]
Null == [t |-> "null"]
NaN == [t |-> "NaN"]
Str(s) == [t |-> "string", v |-> s]
\* A number is kept as an exact fraction num/den.
Num(n) == [t |-> "number", num |-> n, den |-> 1]
Arr(s) == [t |-> "array", items |-> s]

\* ToBoolean: what `!x` and `if (x)` test.
Truthy(x) == x \notin {Undefined, Null, NaN, Str(""), Num(0)}

\* x ?? d
Coalesce(x, d) == IF x \in {Undefined, Null} THEN d ELSE x

\* a?.[0] on an array or a nullish value
FirstOf(a) ==
  IF a \in {Undefined, Null} THEN Undefined
  ELSE IF Len(a.items) = 0 THEN Undefined ELSE a.items[1]

\* ToNumber of the values a resolution takes
ToNumber(x) ==
  IF x = Null THEN Num(0)
  ELSE IF x.t = "number" THEN x
  ELSE NaN

\* a * b on numbers kept as fractions
Times(a, b) ==
  IF ToNumber(a) = NaN \/ ToNumber(b) = NaN THEN NaN
  ELSE [t |-> "number", num |-> ToNumber(a).num * ToNumber(b).num,
                        den |-> ToNumber(a).den * ToNumber(b).den]

\* ------------------------------------------------------------- the scale
\* ol/proj/Units METERS_PER_UNIT[units]
METERS_PER_UNIT(units) ==
  IF units = Str("m") THEN Num(1)
  ELSE IF units = Str("ft") THEN [t |-> "number", num |-> 3048, den |-> 10000]
  ELSE Undefined

getScaleForResolution(resolution, units) ==
  LET dpi == [t |-> "number", num |-> 2540, den |-> 28]
      mpu == METERS_PER_UNIT(units)
      inchesPerMeter == [t |-> "number", num |-> 3937, den |-> 100]
      r == IF Truthy(resolution) THEN ToNumber(resolution) ELSE resolution
  IN Times(Times(Times(r, mpu), inchesPerMeter), dpi)

\* ol/proj toLonLat(center, projection): kept symbolic
toLonLat(center, projection) == [t |-> "lonlat", of |-> center, from |-> projection]

\* ------------------------------------------------------------ promises
Fulfilled(v) == [state |-> "fulfilled", value |-> v]
Rejected(r) == [state |-> "rejected", value |-> r]
Pending == [state |-> "pending", value |-> Undefined]

\* ---------------------------------------------------- mapOlLayerToInkmap
SourceClasses == {"TileWMS", "ImageWMS", "WMTS", "OSM", "VectorSource"}

\* source instanceof C: C.prototype is on the prototype chain of source
InstanceOf(source, C) == source # Null /\ C \in source.classes

\* resolutions?.map((res, idx) => idx)
IndexMap(resolutions) ==
  IF resolutions \in {Undefined, Null} THEN Undefined
  ELSE Arr([idx \in 1..Len(resolutions.items) |-> Num(idx - 1)])

\* olTileGrid?.getX()
OptField(olTileGrid, f) ==
  IF olTileGrid \in {Undefined, Null} THEN Undefined ELSE olTileGrid[f]

tileWmsLayer(source, opacity) ==
  [type |-> "WMS",
   url |-> Coalesce(FirstOf(source.urls), Str("")),
   opacity |-> opacity,
   attribution |-> Str(""),
   layer |-> source.LAYERS,
   tiled |-> TRUE]

imageWmsLayer(source, opacity) ==
  [type |-> "WMS",
   url |-> Coalesce(source.url, Str("")),
   opacity |-> opacity,
   attribution |-> Str(""),
   layer |-> source.LAYERS,
   tiled |-> FALSE]

\* Mutant: the matrix identifiers copied from the source's tile grid.
wmtsLayer_nativeIds(source, opacity) ==
  LET olTileGrid == source.tileGrid
      tileGrid == [resolutions |-> OptField(olTileGrid, "resolutions"),
                   extent |-> OptField(olTileGrid, "extent"),
                   matrixIds |-> OptField(olTileGrid, "matrixIds")]
  IN [type |-> "WMTS",
      requestEncoding |-> source.requestEncoding,
      url |-> Coalesce(FirstOf(source.urls), Str("")),
      layer |-> source.layer,
      projection |-> source.projection,
      matrixSet |-> source.matrixSet,
      tileGrid |-> tileGrid,
      format |-> source.format,
      opacity |-> opacity,
      attribution |-> Str("")]

wmtsLayer(source, opacity) ==
  LET olTileGrid == source.tileGrid
      resolutions == OptField(olTileGrid, "resolutions")
      matrixIds == IndexMap(resolutions)
      tileGrid == [resolutions |-> OptField(olTileGrid, "resolutions"),
                   extent |-> OptField(olTileGrid, "extent"),
                   matrixIds |-> matrixIds]
  IN [type |-> "WMTS",
      requestEncoding |-> source.requestEncoding,
      url |-> Coalesce(FirstOf(source.urls), Str("")),
      layer |-> source.layer,
      projection |-> source.projection,
      matrixSet |-> source.matrixSet,
      tileGrid |-> tileGrid,
      format |-> source.format,
      opacity |-> opacity,
      attribution |-> Str("")]

osmLayer(opacity) ==
  [type |-> "XYZ",
   url |-> Str("https://{a-c}.tile.openstreetmap.org/{z}/{x}/{y}.png"),
   opacity |-> opacity,
   attribution |-> Str("(c) OpenStreetMap (www.openstreetmap.org)"),
   tiled |-> TRUE]

\* The vector branch before its await: the config, with style still undefined.
vectorConfig(source) ==
  [type |-> "GeoJSON",
   geojson |-> [t |-> "FeatureCollection", features |-> source.features],
   style |-> Undefined,
   attribution |-> Str("")]

\* let olStyle = null; if (olLayer instanceof VectorLayer) olStyle = olLayer.getStyle()
olStyleOf(olLayer) == IF olLayer.vectorLayer THEN olLayer.style ELSE Null

\* if (olStyle): whether parser.readStyle is called and awaited
CallsReadStyle(olLayer) == Truthy(olStyleOf(olLayer))

\* Mutant: the vector check made before the basemap check.
mapOlLayerToInkmap_vectorFirst(olLayer) ==
  LET source == olLayer.source
      opacity == olLayer.opacity
      done(v) == [promise |-> Fulfilled(v), readStyle |-> <<>>]
  IN IF InstanceOf(source, "TileWMS") THEN done(tileWmsLayer(source, opacity))
     ELSE IF InstanceOf(source, "ImageWMS") THEN done(imageWmsLayer(source, opacity))
     ELSE IF InstanceOf(source, "WMTS") THEN done(wmtsLayer(source, opacity))
     ELSE IF InstanceOf(source, "VectorSource") THEN
       IF CallsReadStyle(olLayer)
       THEN [promise |-> [state |-> "awaiting", value |-> vectorConfig(source)],
             readStyle |-> <<olStyleOf(olLayer)>>]
       ELSE done(vectorConfig(source))
     ELSE IF InstanceOf(source, "OSM") THEN done(osmLayer(opacity))
     ELSE done(Null)

\* The call of the async function up to its first await or its return: the state
\* of the promise it returns, and the arguments of the readStyle call it made.
mapOlLayerToInkmap(olLayer) ==
  LET source == olLayer.source
      opacity == olLayer.opacity
      done(v) == [promise |-> Fulfilled(v), readStyle |-> <<>>]
  IN IF InstanceOf(source, "TileWMS") THEN done(tileWmsLayer(source, opacity))
     ELSE IF InstanceOf(source, "ImageWMS") THEN done(imageWmsLayer(source, opacity))
     ELSE IF InstanceOf(source, "WMTS") THEN done(wmtsLayer(source, opacity))
     ELSE IF InstanceOf(source, "OSM") THEN done(osmLayer(opacity))
     ELSE IF InstanceOf(source, "VectorSource") THEN
       IF CallsReadStyle(olLayer)
       THEN [promise |-> [state |-> "awaiting", value |-> vectorConfig(source)],
             readStyle |-> <<olStyleOf(olLayer)>>]
       ELSE done(vectorConfig(source))
     ELSE done(Null)

\* The lines the function writes once parser.readStyle has returned gsStyle.
readStyleLog(gsStyle) ==
  <<[level |-> "log", text |-> "gsStyle", data |-> gsStyle]>>
  \o (IF Truthy(gsStyle.errors)
      THEN <<[level |-> "error", text |-> "Geostyler errors: ", data |-> gsStyle.errors]>>
      ELSE <<>>)
  \o (IF Truthy(gsStyle.warnings)
      THEN <<[level |-> "warn", text |-> "Geostyler warnings: ", data |-> gsStyle.warnings]>>
      ELSE <<>>)
  \o (IF Truthy(gsStyle.unsupportedProperties)
      THEN <<[level |-> "warn", text |-> "Detected unsupported style properties: ",
              data |-> gsStyle.unsupportedProperties]>>
      ELSE <<>>)

\* config.style = gsStyle.output; return config
styledConfig(config, gsStyle) == [config EXCEPT !.style = gsStyle.output]

\* ------------------------------------------------- parser.readStyle
\* What the style parser hands back for olStyle when it does not reject:
\* { output, errors?, warnings?, unsupportedProperties? }.
GsOutput(olStyle) == [t |-> "gsStyle", of |-> olStyle]

GsResults(olStyle) ==
  { [output |-> GsOutput(olStyle), errors |-> Undefined, warnings |-> Undefined,
     unsupportedProperties |-> Undefined],
    [output |-> Undefined, errors |-> Arr(<<Str("e")>>), warnings |-> Undefined,
     unsupportedProperties |-> Undefined],
    [output |-> GsOutput(olStyle), errors |-> Undefined, warnings |-> Arr(<<Str("w")>>),
     unsupportedProperties |-> [t |-> "object"]] }

\* The reason parser.readStyle rejects with, for the call made for layer i.
ReadStyleFailure(i) == [t |-> "Error", message |-> "readStyle", layer |-> i]

\* ------------------------------------------------------------ the inputs
UniformStyle == [t |-> "Style"]
StyleFunction == [t |-> "function"]

\* A tile grid of n resolutions; ids says which matrix identifiers it carries.
TileGrid(n, ids) ==
  [t |-> "tileGrid",
   resolutions |-> Arr([k \in 1..n |-> Num(10 * (n + 1 - k))]),
   extent |-> Arr(<<Num(0), Num(0), Num(1), Num(1)>>),
   matrixIds |-> Arr([k \in 1..n |->
                        IF ids = "zero" THEN Num(k - 1)
                        ELSE [t |-> "string", v |-> "EPSG:3857", idx |-> k]])]

TileGrids == {Null} \cup {TileGrid(n, ids) : n \in 0..MaxRes, ids \in {"zero", "named"}}

Urls == Arr(<<Str("http://x/wms"), Str("http://y/wms")>>)

Source(classes, urls, tileGrid, tag) ==
  [t |-> "source", classes |-> classes, urls |-> urls, url |-> FirstOf(urls),
   LAYERS |-> Str("foo"), tileGrid |-> tileGrid, features |-> tag,
   requestEncoding |-> Str("KVP"), layer |-> Str("sgmc2"),
   projection |-> Str("EPSG:3857"), matrixSet |-> Str("GoogleMapsCompatible"),
   format |-> Str("image/png")]

Layer(source, tag, vectorLayer, style) ==
  [source |-> source, opacity |-> Num(tag), vectorLayer |-> vectorLayer, style |-> style]

\* The layers of the concurrency model: one source class each (or none), told
\* apart by tag, which is the opacity of a raster layer and the features of a
\* vector layer.
MainLayers(tag) ==
  {Layer(Source({c}, Urls, IF c = "WMTS" THEN TileGrid(2, "zero") ELSE Null, tag),
         tag, FALSE, Null) : c \in SourceClasses \ {"VectorSource"}}
  \cup {Layer(Source({}, Urls, Null, tag), tag, FALSE, Null)}
  \cup {Layer(Source({"VectorSource"}, Urls, Null, tag), tag, TRUE, st) :
          st \in {Null, UniformStyle}}

\* The layers of the single-layer model: a source may be null and may be an
\* instance of any set of the five classes.
RichLayers ==
  {Layer(Null, 1, FALSE, Null)}
  \cup UNION {
        {Layer(Source(c, urls, grid, 1), 1, vl, st) :
           urls \in (IF c \cap {"TileWMS", "ImageWMS", "WMTS"} # {} THEN {Null, Urls} ELSE {Urls}),
           grid \in (IF "WMTS" \in c THEN TileGrids ELSE {Null}),
           vl \in (IF "VectorSource" \in c THEN BOOLEAN ELSE {FALSE}),
           st \in (IF "VectorSource" \in c THEN {Null, UniformStyle, StyleFunction} ELSE {Null})}
        : c \in SUBSET SourceClasses}

RECURSIVE LayerLists(_)
LayerLists(n) ==
  IF n = 0 THEN {<<>>}
  ELSE LayerLists(n - 1)
       \cup {Append(ls, l) : ls \in {x \in LayerLists(n - 1) : Len(x) = n - 1},
                              l \in MainLayers(n)}

Center == Arr(<<Num(890555), Num(6446275)>>)

View(units, resolution, center) ==
  [units |-> units, resolution |-> resolution, center |-> center,
   projection |-> Str("EPSG:3857")]

Views ==
  {View(u, r, c) : u \in {Undefined, Str("m")},
                   r \in {Undefined, Null, Num(0), Num(2)},
                   c \in {Undefined, Center}}

\* ------------------------------------------------------------- fromOlMap
NotCalled == [state |-> "notCalled", value |-> Undefined]
NoPromise == [state |-> "none", value |-> Undefined]

\* Mutant: tests the resolution like the unit and the center (!resolution), so
\* that a resolution of 0 counts as absent.
ViewIncomplete_falsyResolution(unit, center, resolution) ==
  \/ ~Truthy(unit)
  \/ ~Truthy(center)
  \/ ~Truthy(resolution)

\* !unit || !center || resolution === null || resolution === undefined
ViewIncomplete(unit, center, resolution) ==
  \/ ~Truthy(unit)
  \/ ~Truthy(center)
  \/ resolution = Null
  \/ resolution = Undefined

\* Mutant: a loop that awaits each translation before it starts the next one;
\* the call returns at the first await, with the later layers not started.
StartLayers_sequential(layers) ==
  [i \in DOMAIN layers |->
     IF \E j \in 1..(i - 1) : mapOlLayerToInkmap(layers[j]).promise.state = "awaiting"
     THEN [promise |-> [state |-> "notStarted", value |-> Undefined], readStyle |-> <<>>]
     ELSE mapOlLayerToInkmap(layers[i])]

\* olMap.getLayers().getArray().map(mapOlLayerToInkmap): every call is made, in
\* layer order, before the function goes on; a call that awaits leaves its
\* promise pending.
StartLayers(layers) == [i \in DOMAIN layers |-> mapOlLayerToInkmap(layers[i])]

\* Mutant: Promise.allSettled with the failed layers dropped: a partial result.
PromiseAll_allSettled(promises, order) ==
  IF \A i \in DOMAIN promises : promises[i].state \in {"fulfilled", "rejected"}
  THEN Fulfilled(Arr([i \in DOMAIN promises |->
                        IF promises[i].state = "fulfilled" THEN promises[i].value ELSE Null]))
  ELSE Pending

\* Mutant: the values collected in the order the promises settled.
PromiseAll_completionOrder(promises, order) ==
  LET rejected == SelectSeq(order, LAMBDA i : promises[i].state = "rejected")
  IN IF Len(rejected) > 0 THEN Rejected(promises[rejected[1]].value)
     ELSE IF \A i \in DOMAIN promises : promises[i].state = "fulfilled"
          THEN Fulfilled(Arr([k \in DOMAIN order |-> promises[order[k]].value]))
          ELSE Pending

\* Promise.all(promises): rejected with the reason of the promise that rejected
\* first (order: the promises in the order they settled), fulfilled with the
\* values in the order of the promises once all are fulfilled, pending otherwise.
PromiseAll(promises, order) ==
  LET rejected == SelectSeq(order, LAMBDA i : promises[i].state = "rejected")
  IN IF Len(rejected) > 0 THEN Rejected(promises[rejected[1]].value)
     ELSE IF \A i \in DOMAIN promises : promises[i].state = "fulfilled"
          THEN Fulfilled(Arr([i \in DOMAIN promises |-> promises[i].value]))
          ELSE Pending

\* responses.filter(l => l !== null)
FilterNotNull(responses) == SelectSeq(responses, LAMBDA l : l # Null)

\* The config the then-callback builds from the responses.
Config(responses, view) ==
  [layers |-> FilterNotNull(responses.items),
   size |-> Arr(<<Num(400), Num(240), Str("mm")>>),
   center |-> toLonLat(view.center, view.projection),
   dpi |-> Num(120),
   scale |-> getScaleForResolution(view.resolution, view.units),
   scaleBar |-> [position |-> Str("bottom-left"), units |-> Str("metric")],
   projection |-> view.projection,
   northArrow |-> Str("top-right"),
   attributions |-> Str("bottom-right")]

ViewError == [t |-> "Error", message |-> "Can not determine unit / resolution from map"]

\* The call fromOlMap(olMap), up to its return or its throw.
fromOlMap ==
  /\ result.state = "notCalled"
  /\ console' = Append(console, [level |-> "log", text |-> "olMap", data |-> Undefined])
  /\ IF ViewIncomplete(olMap.view.units, olMap.view.center, olMap.view.resolution)
     THEN /\ result' = [state |-> "thrown", value |-> ViewError]
          /\ UNCHANGED <<layerPromises, settleOrder, all, readStyleArgs, gsStyles>>
     ELSE LET started == StartLayers(olMap.layers)
          IN /\ layerPromises' = [i \in DOMAIN started |-> started[i].promise]
             /\ readStyleArgs' = [i \in DOMAIN started |-> started[i].readStyle]
             /\ gsStyles' = [i \in DOMAIN started |-> Undefined]
             /\ settleOrder' = SelectSeq([i \in DOMAIN started |-> i],
                                         LAMBDA i : started[i].promise.state = "fulfilled")
             /\ all' = Pending
             /\ result' = Pending
  /\ UNCHANGED <<olMap, printerVars>>

\* Mutant: the rest of mapOlLayerToInkmap throws when gsStyle reports errors.
readStyleFulfilled_throwOnErrors(i) ==
  /\ i \in DOMAIN layerPromises
  /\ layerPromises[i].state = "awaiting"
  /\ \E gsStyle \in GsResults(readStyleArgs[i][1]) :
       /\ gsStyles' = [gsStyles EXCEPT ![i] = gsStyle]
       /\ console' = console \o readStyleLog(gsStyle)
       /\ layerPromises' = [layerPromises EXCEPT
                              ![i] = IF Truthy(gsStyle.errors)
                                     THEN Rejected(gsStyle.errors)
                                     ELSE Fulfilled(styledConfig(layerPromises[i].value, gsStyle))]
  /\ settleOrder' = Append(settleOrder, i)
  /\ UNCHANGED <<olMap, result, all, readStyleArgs, printerVars>>

\* parser.readStyle returns gsStyle for layer i: the rest of mapOlLayerToInkmap runs.
readStyleFulfilled(i) ==
  /\ i \in DOMAIN layerPromises
  /\ layerPromises[i].state = "awaiting"
  /\ \E gsStyle \in GsResults(readStyleArgs[i][1]) :
       /\ gsStyles' = [gsStyles EXCEPT ![i] = gsStyle]
       /\ console' = console \o readStyleLog(gsStyle)
       /\ layerPromises' = [layerPromises EXCEPT
                              ![i] = Fulfilled(styledConfig(layerPromises[i].value, gsStyle))]
  /\ settleOrder' = Append(settleOrder, i)
  /\ UNCHANGED <<olMap, result, all, readStyleArgs, printerVars>>

\* parser.readStyle rejects for layer i: the await throws, the async function's
\* promise is rejected with the same reason.
readStyleRejected(i) ==
  /\ i \in DOMAIN layerPromises
  /\ layerPromises[i].state = "awaiting"
  /\ layerPromises' = [layerPromises EXCEPT ![i] = Rejected(ReadStyleFailure(i))]
  /\ settleOrder' = Append(settleOrder, i)
  /\ UNCHANGED <<olMap, result, all, readStyleArgs, gsStyles, console, printerVars>>

\* The reactions of Promise.all to the layer promises settle its promise.
PromiseAllSettle ==
  /\ all.state = "pending"
  /\ PromiseAll(layerPromises, settleOrder) # Pending
  /\ all' = PromiseAll(layerPromises, settleOrder)
  /\ UNCHANGED <<olMap, result, layerPromises, settleOrder, readStyleArgs, gsStyles, console, printerVars>>

\* .then((responses) => ...): builds the config and resolves with it.
thenHandler ==
  /\ result.state = "pending"
  /\ all.state = "fulfilled"
  /\ result' = Fulfilled(Config(all.value, olMap.view))
  /\ UNCHANGED <<olMap, layerPromises, settleOrder, all, readStyleArgs, gsStyles, console, printerVars>>

\* Mutant: a catch handler that rejects without logging.
catchHandler_noLog ==
  /\ result.state = "pending"
  /\ all.state = "rejected"
  /\ result' = Rejected(Undefined)
  /\ UNCHANGED <<olMap, layerPromises, settleOrder, all, readStyleArgs, gsStyles, console, printerVars>>

\* .catch((error) => ...): logs the error and rejects without a reason.
catchHandler ==
  /\ result.state = "pending"
  /\ all.state = "rejected"
  /\ console' = Append(console, [level |-> "error", text |-> "", data |-> all.value])
  /\ result' = Rejected(Undefined)
  /\ UNCHANGED <<olMap, layerPromises, settleOrder, all, readStyleArgs, gsStyles, printerVars>>

\* ---------------------------------------------------------- printerReady
Bool(b) == [t |-> "boolean", v |-> b]

\* !!HTMLCanvasElement.prototype.transferControlToOffscreen
hasOffscreenCanvasSupport == env.transferControlToOffscreen

\* Mutant: a resolve whose last call wins.
Resolve_lastWins(promise, v) == Fulfilled(v)

\* resolve(v) of a promise: the first call settles it, a later call does nothing.
Resolve(promise, v) == IF promise.state = "pending" THEN Fulfilled(v) ELSE promise

\* The body of the timer callback: if (!controller) resolve(false); resolve(true);
TimerResolves(controller) == IF ~controller THEN <<Bool(FALSE), Bool(TRUE)>> ELSE <<Bool(TRUE)>>

\* The promise after the resolve calls vs, made in this order.
RECURSIVE ResolveAll(_, _)
ResolveAll(promise, vs) ==
  IF vs = <<>> THEN promise ELSE ResolveAll(Resolve(promise, Head(vs)), Tail(vs))

\* The module is evaluated: the executor of printerReady runs, then
\* printerReady.then(...) of the module subscribes its logging callback.
LoadModule ==
  /\ printerReady.state = "none"
  /\ IF hasOffscreenCanvasSupport
     THEN /\ registration' = Pending
          /\ printerReady' = Pending
          /\ UNCHANGED resolveCalls
     ELSE /\ printerReady' = ResolveAll(Pending, <<Bool(FALSE)>>)
          /\ resolveCalls' = resolveCalls \o <<Bool(FALSE)>>
          /\ UNCHANGED registration
  /\ subscribers' = <<[who |-> "module", got |-> Undefined]>>
  /\ UNCHANGED <<env, timer, printerLog, mapVars>>

\* navigator.serviceWorker.register(...) succeeds: its callback arms the timer.
RegisterFulfilled ==
  /\ registration.state = "pending"
  /\ registration' = Fulfilled(Undefined)
  /\ timer' = [state |-> "armed", controller |-> FALSE]
  /\ UNCHANGED <<env, printerReady, resolveCalls, subscribers, printerLog, mapVars>>

\* navigator.serviceWorker.register(...) fails: its callback logs and resolves false.
RegisterRejected ==
  /\ registration.state = "pending"
  /\ registration' = Rejected(Undefined)
  /\ printerLog' = Append(printerLog, "[inkmap] Service worker was not found.")
  /\ printerReady' = ResolveAll(printerReady, <<Bool(FALSE)>>)
  /\ resolveCalls' = resolveCalls \o <<Bool(FALSE)>>
  /\ UNCHANGED <<env, timer, subscribers, mapVars>>

\* The timer callback, 100 ms after the registration.
TimerFires ==
  /\ timer.state = "armed"
  /\ timer' = [state |-> "fired", controller |-> env.controller]
  /\ printerReady' = ResolveAll(printerReady, TimerResolves(env.controller))
  /\ resolveCalls' = resolveCalls \o TimerResolves(env.controller)
  /\ UNCHANGED <<env, registration, subscribers, printerLog, mapVars>>

\* The worker claims the window: navigator.serviceWorker.controller is set.
ControllerClaims ==
  /\ ~env.controller
  /\ env' = [env EXCEPT !.controller = TRUE]
  /\ UNCHANGED <<registration, timer, printerReady, resolveCalls, subscribers, printerLog, mapVars>>

\* Code that imports the module subscribes: printerReady.then(callback).
Subscribe ==
  /\ printerReady.state # "none"
  /\ Len(subscribers) < 1 + MaxSubscribers
  /\ subscribers' = Append(subscribers, [who |-> "importer", got |-> Undefined])
  /\ UNCHANGED <<env, registration, timer, printerReady, resolveCalls, printerLog, mapVars>>

\* The reaction of subscriber k: its callback is called with the promise's value.
\* The module's own callback logs which of the two the printer uses.
Deliver(k) ==
  /\ k \in DOMAIN subscribers
  /\ subscribers[k].got = Undefined
  /\ printerReady.state = "fulfilled"
  /\ subscribers' = [subscribers EXCEPT ![k].got = printerReady.value]
  /\ printerLog' = IF subscribers[k].who = "module"
                   THEN Append(printerLog, IF printerReady.value.v
                                           THEN "[inkmap] Ready, using worker"
                                           ELSE "[inkmap] Ready, using main thread")
                   ELSE printerLog
  /\ UNCHANGED <<env, registration, timer, printerReady, resolveCalls, mapVars>>

\* ------------------------------------------------------ specifications
MapInit(layerLists) ==
  /\ olMap \in {[view |-> v, layers |-> ls] : v \in Views, ls \in layerLists}
  /\ result = NotCalled
  /\ layerPromises = <<>>
  /\ settleOrder = <<>>
  /\ all = NoPromise
  /\ readStyleArgs = <<>>
  /\ gsStyles = <<>>
  /\ console = <<>>

PrinterInit(envs) ==
  /\ env \in envs
  /\ registration = NoPromise
  /\ timer = [state |-> "none", controller |-> FALSE]
  /\ printerReady = NoPromise
  /\ resolveCalls = <<>>
  /\ subscribers = <<>>
  /\ printerLog = <<>>

Envs == [transferControlToOffscreen : BOOLEAN, controller : BOOLEAN]

MapNext ==
  \/ fromOlMap
  \/ \E i \in 1..(MaxLayers + 1) : readStyleFulfilled(i)
  \/ \E i \in 1..(MaxLayers + 1) : readStyleRejected(i)
  \/ PromiseAllSettle
  \/ thenHandler
  \/ catchHandler

PrinterNext ==
  \/ LoadModule
  \/ RegisterFulfilled
  \/ RegisterRejected
  \/ TimerFires
  \/ ControllerClaims
  \/ Subscribe
  \/ \E k \in 1..(MaxSubscribers + 1) : Deliver(k)

\* fromOlMap on a map of up to MaxLayers layers with one source class each.
Init == MapInit(LayerLists(MaxLayers)) /\ PrinterInit({[transferControlToOffscreen |-> FALSE, controller |-> FALSE]})
Next == MapNext
Spec == Init /\ [][Next]_vars

\* fromOlMap on a map of one layer of any shape.
InitLayer == MapInit({<<l>> : l \in RichLayers}) /\ PrinterInit({[transferControlToOffscreen |-> FALSE, controller |-> FALSE]})
SpecLayer == InitLayer /\ [][MapNext]_vars

\* The printerReady promise, in any browser.
InitPrinter == MapInit({<<>>}) /\ olMap.view = View(Str("m"), Num(2), Center) /\ PrinterInit(Envs)
SpecPrinter == InitPrinter /\ [][PrinterNext]_vars

\* ================================================================ claims
Called == result.state # "notCalled"
Absent(x) == x \in {Undefined, Null}
ViewStateAbsent ==
  \/ Absent(olMap.view.units)
  \/ Absent(olMap.view.center)
  \/ Absent(olMap.view.resolution)
Started == DOMAIN layerPromises # {}
StateOf(i) == layerPromises[i].state
AnyRejected == \E i \in DOMAIN layerPromises : StateOf(i) = "rejected"
AllFulfilled == \A i \in DOMAIN layerPromises : StateOf(i) = "fulfilled"

\* The source classes a layer's source is an instance of, and the first of them
\* in the documented precedence ("none" when there is none).
Precedence == <<"TileWMS", "ImageWMS", "WMTS", "OSM", "VectorSource">>
ClassesOf(layer) == IF layer.source = Null THEN {} ELSE layer.source.classes \cap SourceClasses
Recognized(layer) == ClassesOf(layer) # {}
Variant(layer) ==
  IF ~Recognized(layer) THEN "none"
  ELSE Precedence[CHOOSE k \in 1..5 :
                    /\ Precedence[k] \in ClassesOf(layer)
                    /\ \A j \in 1..(k - 1) : Precedence[j] \notin ClassesOf(layer)]

\* The lines console.error(error) of the catch handler wrote.
CaughtErrorLines == SelectSeq(console, LAMBDA e : e.level = "error" /\ e.text = "")
\* The layer whose promise rejected first.
FirstRejected ==
  SelectSeq(settleOrder, LAMBDA i : StateOf(i) = "rejected")[1]

\* ----------------------------------------------------------------- C1
\* C1, as stated: whenever the view's units, center or resolution is absent,
\* the promise fromOlMap returns is rejected, with no layer translation started.
C1_RejectsOnIncompleteView ==
  (Called /\ ViewStateAbsent) => (result.state = "rejected" /\ ~Started)

\* C1, amended: fromOlMap fails exactly when the units, the center or the
\* resolution is absent (a resolution of 0 is accepted), and then it throws the
\* view-state Error synchronously instead of returning a promise, before any
\* layer translation is started: no layer is translated, no parser call is
\* made, no Promise.all is created and no spec is returned.
C1_ThrowsOnIncompleteView ==
  Called =>
    /\ ViewStateAbsent <=> result.state = "thrown"
    /\ ViewStateAbsent =>
         /\ result.value = ViewError
         /\ ~Started
         /\ readStyleArgs = <<>>
         /\ all = NoPromise

\* A map with layers whose resolution alone is undefined has been refused.
C1_Witness ==
  /\ result.state = "thrown"
  /\ Len(olMap.layers) >= 2
  /\ olMap.view = View(Str("m"), Undefined, Center)

\* ----------------------------------------------------------------- C2
\* C2: once a layer translation has rejected, fromOlMap never resolves with a
\* spec, and its rejection needs nothing more than its own pending reactions
\* (Promise.all's, then the catch handler's).
C2_AllOrNothing ==
  AnyRejected =>
    /\ result.state \in {"pending", "rejected"}
    /\ result.state = "pending" =>
         \/ all.state = "pending" /\ ENABLED PromiseAllSettle
         \/ all.state = "rejected" /\ ENABLED catchHandler

\* The first layer's style was translated, the second's was refused, and
\* fromOlMap has rejected.
C2_Witness ==
  /\ result.state = "rejected"
  /\ Len(olMap.layers) >= 2
  /\ StateOf(1) = "fulfilled" /\ gsStyles[1] # Undefined
  /\ StateOf(2) = "rejected"

\* ----------------------------------------------------------------- C3
\* The input layer a descriptor was made from: the opacity of a raster layer,
\* the features of a vector layer.
DescTag(d) == IF d.type = "GeoJSON" THEN d.geojson.features ELSE d.opacity.num

\* C3: a resolved spec lists exactly the recognized layers, in input order,
\* with no placeholder for a dropped one.
C3_RecognizedInOrder ==
  result.state = "fulfilled" =>
    LET out == result.value.layers
        n == Len(olMap.layers)
    IN /\ \A k \in DOMAIN out : out[k] # Null
       /\ Len(out) = Cardinality({i \in 1..n : Recognized(olMap.layers[i])})
       /\ \A k \in DOMAIN out : Recognized(olMap.layers[DescTag(out[k])])
       /\ \A j, k \in DOMAIN out : j < k => DescTag(out[j]) < DescTag(out[k])

\* Three layers, the middle one unrecognized, the third translated before the first.
C3_Witness ==
  /\ result.state = "fulfilled"
  /\ Len(olMap.layers) = 3
  /\ ~Recognized(olMap.layers[2])
  /\ settleOrder = <<2, 3, 1>>
  /\ Len(result.value.layers) = 2

\* ----------------------------------------------------------------- C6
\* C6, as stated: every failure is logged and reaches the caller as a
\* rejection without a reason.
C6_EveryFailureLoggedAndRejected ==
  result.state \in {"thrown", "rejected"} =>
    /\ result.state = "rejected"
    /\ result.value = Undefined
    /\ \E k \in DOMAIN console : console[k].level = "error"

\* C6, amended: a rejected layer translation reaches the caller as a rejection
\* without a reason, after the catch handler has logged one error, the reason
\* of the translation that rejected first; an incomplete view state is not
\* logged and reaches the caller as the thrown view-state Error; and no
\* failure is swallowed: a spec is returned only when the view state is
\* complete and no translation rejected.
C6_FailuresSurface ==
  /\ result.state = "rejected" =>
       /\ result.value = Undefined
       /\ AnyRejected
       /\ CaughtErrorLines =
            <<[level |-> "error", text |-> "", data |-> ReadStyleFailure(FirstRejected)]>>
  /\ result.state = "thrown" =>
       /\ result.value = ViewError
       /\ \A k \in DOMAIN console : console[k].level # "error"
  /\ result.state = "fulfilled" => (~ViewStateAbsent /\ ~AnyRejected)
  /\ result.state \in {"notCalled", "pending", "fulfilled"} => CaughtErrorLines = <<>>

\* Two translations rejected; fromOlMap rejected and logged (one error).
C6_Witness ==
  /\ result.state = "rejected"
  /\ Cardinality({i \in DOMAIN layerPromises : StateOf(i) = "rejected"}) >= 2
  /\ Len(CaughtErrorLines) = 1

\* ----------------------------------------------------------------- C8
\* C8, as stated: fromOlMap settles only after all layer translations completed.
C8_SettlesAfterAllComplete ==
  result.state \in {"fulfilled", "rejected"} =>
    \A i \in DOMAIN layerPromises : StateOf(i) \in {"fulfilled", "rejected"}

\* C8, amended: the call starts the translation of every layer (each one runs
\* to its return or to its awaited parser call) before it returns, so none
\* waits for an earlier one; fromOlMap resolves only after all translations
\* have fulfilled, and rejects only after one has rejected, whether or not the
\* others have completed.
C8_FanOutFanIn ==
  result.state \in {"pending", "fulfilled", "rejected"} =>
    /\ DOMAIN layerPromises = 1..Len(olMap.layers)
    /\ \A i \in DOMAIN layerPromises :
         /\ StateOf(i) \in {"awaiting", "fulfilled", "rejected"}
         /\ StateOf(i) = "awaiting" => Len(readStyleArgs[i]) = 1
    /\ result.state = "fulfilled" => AllFulfilled
    /\ result.state = "rejected" => AnyRejected

\* fromOlMap has rejected while a translation is still awaiting its parser call.
C8_Witness ==
  /\ result.state = "rejected"
  /\ \E i \in DOMAIN layerPromises : StateOf(i) = "awaiting"

\* ----------------------------------------------------------------- C9
\* C9: whatever a returned gsStyle reports, the layer's translation fulfils
\* with a GeoJSON descriptor whose style is gsStyle.output, and a resolved spec
\* lists it; a translation is rejected only with the parser's own rejection;
\* and once all translations have fulfilled, fromOlMap resolves by its own
\* pending reactions.
C9_DiagnosticsDoNotAbort ==
  /\ \A i \in DOMAIN layerPromises :
       /\ gsStyles[i] # Undefined =>
            /\ StateOf(i) = "fulfilled"
            /\ layerPromises[i].value.type = "GeoJSON"
            /\ layerPromises[i].value.style = gsStyles[i].output
            /\ result.state = "fulfilled" =>
                 \E k \in DOMAIN result.value.layers :
                    result.value.layers[k] = layerPromises[i].value
       /\ StateOf(i) = "rejected" =>
            (gsStyles[i] = Undefined /\ layerPromises[i].value = ReadStyleFailure(i))
  /\ result.state = "rejected" => AnyRejected
  /\ (result.state = "pending" /\ AllFulfilled) =>
       \/ all.state = "pending" /\ ENABLED PromiseAllSettle
       \/ all.state = "fulfilled" /\ ENABLED thenHandler

\* A spec resolved with one layer whose gsStyle reported errors (no output)
\* and one whose gsStyle reported warnings and unsupported properties.
C9_Witness ==
  /\ result.state = "fulfilled"
  /\ \E i, j \in DOMAIN layerPromises :
       /\ gsStyles[i] # Undefined /\ gsStyles[j] # Undefined
       /\ Truthy(gsStyles[i].errors) /\ layerPromises[i].value.style = Undefined
       /\ Truthy(gsStyles[j].warnings) /\ Truthy(gsStyles[j].unsupportedProperties)
       /\ layerPromises[i].value \in {result.value.layers[k] : k \in DOMAIN result.value.layers}
       /\ layerPromises[j].value \in {result.value.layers[k] : k \in DOMAIN result.value.layers}

\* ----------------------------------------------------------------- C4
\* C4: the promise of a layer's translation is decided by the first class, in
\* the precedence Tiled-WMS, Single-Image-WMS, WMTS, basemap, vector, that the
\* source is an instance of: a WMS descriptor with tiled true, one with tiled
\* false, a WMTS descriptor, an XYZ descriptor, a GeoJSON descriptor (once the
\* parser call, if any, has returned); with no such class it is fulfilled with
\* null, never rejected.
C4_FirstMatchWins ==
  Started =>
    LET variant == Variant(olMap.layers[1])
        p == layerPromises[1]
    IN /\ variant = "none" => p = Fulfilled(Null)
       /\ variant # "VectorSource" => p.state = "fulfilled"
       /\ variant = "TileWMS" => (p.value.type = "WMS" /\ p.value.tiled = TRUE)
       /\ variant = "ImageWMS" => (p.value.type = "WMS" /\ p.value.tiled = FALSE)
       /\ variant = "WMTS" => p.value.type = "WMTS"
       /\ variant = "OSM" => p.value.type = "XYZ"
       /\ variant = "VectorSource" =>
            /\ p.state \in {"awaiting", "fulfilled", "rejected"}
            /\ p.state \in {"awaiting", "fulfilled"} => p.value.type = "GeoJSON"

\* A source that is an instance of both the basemap class and the vector class
\* has been translated to an XYZ descriptor.
C4_Witness ==
  /\ Started
  /\ ClassesOf(olMap.layers[1]) = {"OSM", "VectorSource"}
  /\ layerPromises[1].state = "fulfilled"
  /\ layerPromises[1].value.type = "XYZ"

\* ----------------------------------------------------------------- C5
IsWmts == Started /\ Variant(olMap.layers[1]) = "WMTS"
\* a is the array 0, 1, ..., n-1
ZeroBased(a, n) ==
  /\ a.t = "array"
  /\ Len(a.items) = n
  /\ \A k \in 1..n : a.items[k] = Num(k - 1)
LengthOf(a) == IF a.t = "array" THEN Len(a.items) ELSE 0

\* C5, as stated: for every WMTS-backed layer, also one whose source has no
\* tile grid, matrixIds is the sequence 0..N-1, as long as resolutions.
C5_MatrixIdsAlwaysZeroBased ==
  IsWmts =>
    LET g == layerPromises[1].value.tileGrid
    IN ZeroBased(g.matrixIds, LengthOf(g.resolutions))

\* C5, amended: for a WMTS-backed layer whose source has a tile grid (its
\* resolution list may be empty), resolutions is the grid's list and matrixIds
\* is the sequence 0..N-1 of the same length N, whatever matrix identifiers the
\* grid carries; for one whose source has no tile grid, resolutions, extent and
\* matrixIds are all undefined.
C5_MatrixIdsParallelToResolutions ==
  IsWmts =>
    LET g == layerPromises[1].value.tileGrid
        olTileGrid == olMap.layers[1].source.tileGrid
    IN IF olTileGrid = Null
       THEN g.resolutions = Undefined /\ g.extent = Undefined /\ g.matrixIds = Undefined
       ELSE /\ g.resolutions = olTileGrid.resolutions
            /\ ZeroBased(g.matrixIds, Len(olTileGrid.resolutions.items))

\* A grid of three resolutions with named matrix identifiers gave 0, 1, 2.
C5_Witness ==
  /\ IsWmts
  /\ olMap.layers[1].source.tileGrid = TileGrid(3, "named")
  /\ layerPromises[1].value.tileGrid.matrixIds = Arr(<<Num(0), Num(1), Num(2)>>)

\* ---------------------------------------------------------------- C10
\* C10: a vector layer whose style is a style function is translated without a
\* parser call and its descriptor's style stays undefined; the parser is called
\* at most once per layer, and only for a vector layer with a uniform style.
C10_StyleFunctionIgnored ==
  Started =>
    LET l == olMap.layers[1]
    IN /\ Len(readStyleArgs[1]) <= 1
       /\ readStyleArgs[1] # <<>> =>
            (Variant(l) = "VectorSource" /\ l.vectorLayer /\ l.style = UniformStyle)
       /\ (Variant(l) = "VectorSource" /\ l.vectorLayer /\ l.style = StyleFunction) =>
            /\ readStyleArgs[1] = <<>>
            /\ layerPromises[1].state = "fulfilled"
            /\ layerPromises[1].value.style = Undefined

\* ----------------------------------------------------------------- C7
C7_State ==
  /\ printerReady.state \in {"none", "pending", "fulfilled"}
  /\ printerReady.state = "fulfilled" =>
       /\ printerReady.value \in {Bool(TRUE), Bool(FALSE)}
       /\ printerReady.value = Bool(TRUE) <=>
            /\ env.transferControlToOffscreen
            /\ registration.state = "fulfilled"
            /\ timer.state = "fired"
            /\ timer.controller
       /\ printerReady.value = Bool(TRUE) => env.controller
  /\ \A k \in DOMAIN subscribers :
       subscribers[k].got # Undefined =>
         (printerReady.state = "fulfilled" /\ subscribers[k].got = printerReady.value)

C7_Step == printerReady.state \in {"fulfilled", "rejected"} => printerReady' = printerReady

====
